---- MODULE Spec2Model ----
(***************************************************************************)
(* Review-queue lifecycle of frontend/src/App.jsx: the App component keeps *)
(* the list `reviews`, fetches it on mount, and re-fetches it after every  *)
(* approve / reject POST that resolved.  All handlers run on the UI event  *)
(* loop and interleave only at their awaits (the network round trips), so  *)
(* every action below is one run-to-completion step between two awaits.    *)
(***************************************************************************)
EXTENDS Integers, Sequences, FiniteSets, TLC

\* Number of review items the backend holds (ids 1..NumItems).
NumItems == 2

\* Number of button clicks (handleApprove / handleReject invocations) explored.
MaxCalls == 2

Ids == 1..NumItems

Status == {"PENDING", "APPROVED", "REJECTED"}

VARIABLES
    phase,      \* "created" (rendered, effect not yet run), "mounted", "unmounted"
    reviews,    \* the React state `reviews`: sequence of [id, status]
    backend,    \* authoritative store behind API_URL: id -> status
    calls,      \* handler invocations, in click order: [button, card, kind, id, pc]
    fetches,    \* fetchReviews invocations, in issue order: [owner, st, data]
    lastOk,     \* index of the fetch whose setReviews ran most recently (0: none)
    uncaught,   \* number of promise rejections that escaped a handler
    overlapped  \* TRUE once a click happened while another request was in flight

vars == <<phase, reviews, backend, calls, fetches, lastOk, uncaught, overlapped>>

----------------------------------------------------------------------------
(* Backend, seen through its three endpoints.                              *)

\* Order in which GET /reviews lists the ids (newest first).
Order == [i \in 1..NumItems |-> NumItems + 1 - i]

\* GET /reviews: the full current snapshot.
ListReviews == [i \in 1..NumItems |-> [id |-> Order[i], status |-> backend[Order[i]]]]

\* POST /reviews/{id}/approve and /reject: the status the item moves to.
Transition(kind) == IF kind = "approve" THEN "APPROVED" ELSE "REJECTED"

----------------------------------------------------------------------------
(* Rendering: lines 38-96.                                                  *)

\* Mutant: visibility also tracks whether the item was already clicked.
ControlsTracked(review) ==
    IF review.status = "PENDING" /\ \A c \in DOMAIN calls : calls[c].id # review.id
    THEN {"approve", "reject"}
    ELSE {}

\* Mutant: the buttons are rendered for every card.
ControlsAlways(review) == {"approve", "reject"}

\* The buttons rendered for one card.
Controls(review) ==
    IF review.status = "PENDING" THEN {"approve", "reject"} ELSE {}

\* What the reviewer sees: one card per element of `reviews`, in order.
Render(q) ==
    [i \in DOMAIN q |-> [id |-> q[i].id, status |-> q[i].status, controls |-> Controls(q[i])]]

----------------------------------------------------------------------------
(* Helpers over the request records.                                        *)

PostInFlight(c) == calls[c].pc \in {"posting", "posted"}

FetchInFlight(f) == fetches[f].st \in {"sent", "served"}

InFlight == (\E c \in DOMAIN calls : PostInFlight(c)) \/ (\E f \in DOMAIN fetches : FetchInFlight(f))

\* axios.get issued by fetchReviews(); owner 0 is the mount effect.
NewFetch(owner) == [owner |-> owner, st |-> "sent", data |-> <<>>]

----------------------------------------------------------------------------

\* Mutant: the list starts with a placeholder card.
InitialReviewsPlaceholder == <<[id |-> 1, status |-> "PENDING"]>>

\* useState([])
InitialReviews == <<>>

Init ==
    /\ phase = "created"
    /\ reviews = InitialReviews
    /\ backend \in [Ids -> Status]
    /\ calls = <<>>
    /\ fetches = <<>>
    /\ lastOk = 0
    /\ uncaught = 0
    /\ overlapped = FALSE

\* useEffect(() => { fetchReviews(); }, [])
Mount ==
    /\ phase = "created"
    /\ phase' = "mounted"
    /\ fetches' = Append(fetches, NewFetch(0))
    /\ UNCHANGED <<reviews, backend, calls, lastOk, uncaught, overlapped>>

\* The backend answers a GET /reviews with its current snapshot.
FetchServe(f) ==
    /\ fetches[f].st = "sent"
    /\ fetches' = [fetches EXCEPT ![f].st = "served", ![f].data = ListReviews]
    /\ UNCHANGED <<phase, reviews, backend, calls, lastOk, uncaught, overlapped>>

\* Mutant: a response is applied only if no later fetch was issued.
FetchOkLatestOnly(f) ==
    /\ fetches[f].st = "served"
    /\ fetches' = [fetches EXCEPT ![f].st = "ok"]
    /\ reviews' = IF phase = "mounted" /\ f = Len(fetches) THEN fetches[f].data ELSE reviews
    /\ lastOk' = f
    /\ UNCHANGED <<phase, backend, calls, uncaught, overlapped>>

\* Mutant: a response only fills in an empty list, later ones are kept out.
FetchOkKeepOld(f) ==
    /\ fetches[f].st = "served"
    /\ fetches' = [fetches EXCEPT ![f].st = "ok"]
    /\ reviews' = IF phase = "mounted" /\ reviews = <<>> THEN fetches[f].data ELSE reviews
    /\ lastOk' = f
    /\ UNCHANGED <<phase, backend, calls, uncaught, overlapped>>

\* Mutant: a response is appended to the list instead of replacing it.
FetchOkAppend(f) ==
    /\ fetches[f].st = "served"
    /\ fetches' = [fetches EXCEPT ![f].st = "ok"]
    /\ reviews' = IF phase = "mounted" THEN reviews \o fetches[f].data ELSE reviews
    /\ lastOk' = f
    /\ UNCHANGED <<phase, backend, calls, uncaught, overlapped>>

\* Mutant: a response is applied to the state of a torn-down view as well.
FetchOkAlways(f) ==
    /\ fetches[f].st = "served"
    /\ fetches' = [fetches EXCEPT ![f].st = "ok"]
    /\ reviews' = fetches[f].data
    /\ lastOk' = f
    /\ UNCHANGED <<phase, backend, calls, uncaught, overlapped>>

\* fetchReviews, try branch: the await resolves, setReviews(res.data).
\* A state update on an unmounted component is dropped by React.
FetchOk(f) ==
    /\ fetches[f].st = "served"
    /\ fetches' = [fetches EXCEPT ![f].st = "ok"]
    /\ reviews' = IF phase = "mounted" THEN fetches[f].data ELSE reviews
    /\ lastOk' = f
    /\ UNCHANGED <<phase, backend, calls, uncaught, overlapped>>

\* Mutant: the catch branch clears the list.
FetchFailClear(f) ==
    /\ FetchInFlight(f)
    /\ fetches' = [fetches EXCEPT ![f].st = "caught"]
    /\ reviews' = <<>>
    /\ UNCHANGED <<phase, backend, calls, lastOk, uncaught, overlapped>>

\* Mutant: the catch branch retries the fetch.
FetchFailRetry(f) ==
    /\ FetchInFlight(f)
    /\ fetches' = IF Len(fetches) <= MaxCalls
                  THEN Append([fetches EXCEPT ![f].st = "caught"], NewFetch(fetches[f].owner))
                  ELSE [fetches EXCEPT ![f].st = "caught"]
    /\ UNCHANGED <<phase, reviews, backend, calls, lastOk, uncaught, overlapped>>

\* fetchReviews, catch branch: the await rejects, console.error, normal return.
FetchFail(f) ==
    /\ FetchInFlight(f)
    /\ fetches' = [fetches EXCEPT ![f].st = "caught"]
    /\ UNCHANGED <<phase, reviews, backend, calls, lastOk, uncaught, overlapped>>

\* A click on `button` of the card `card`, wired to a handler that posts
\* `kind` for `id`: the handler runs up to its await.
Click(button, card, kind, id) ==
    /\ phase = "mounted"
    /\ Len(calls) < MaxCalls
    /\ \E i \in DOMAIN reviews : reviews[i].id = card /\ button \in Controls(reviews[i])
    /\ calls' = Append(calls, [button |-> button, card |-> card,
                               kind |-> kind, id |-> id, pc |-> "posting"])
    /\ overlapped' = (overlapped \/ InFlight)
    /\ UNCHANGED <<phase, reviews, backend, lastOk, uncaught>>

\* Mutant: the refresh is fired together with the POST, without awaiting it.
HandleApproveNoAwait(id) ==
    /\ Click("approve", id, "approve", id)
    /\ fetches' = Append(fetches, NewFetch(Len(calls) + 1))

\* onClick={() => handleApprove(review.id)}: handleApprove(id) up to
\* `await axios.post(.../reviews/${id}/approve)`
HandleApprove(id) == Click("approve", id, "approve", id) /\ UNCHANGED fetches

\* Mutant: the reject handler posts to the approve endpoint.
HandleRejectPostsApprove(id) == Click("reject", id, "approve", id) /\ UNCHANGED fetches

\* onClick={() => handleReject(review.id)}: handleReject(id) up to
\* `await axios.post(.../reviews/${id}/reject)`
HandleReject(id) == Click("reject", id, "reject", id) /\ UNCHANGED fetches

\* The backend performs the POST: the item moves to its new status.
PostServe(c) ==
    /\ calls[c].pc = "posting"
    /\ backend' = [backend EXCEPT ![calls[c].id] = Transition(calls[c].kind)]
    /\ calls' = [calls EXCEPT ![c].pc = "posted"]
    /\ UNCHANGED <<phase, reviews, fetches, lastOk, uncaught, overlapped>>

\* Mutant: the handler returns without refreshing the list.
PostOkNoRefresh(c) ==
    /\ calls[c].pc = "posted"
    /\ calls' = [calls EXCEPT ![c].pc = "fulfilled"]
    /\ UNCHANGED <<phase, reviews, backend, fetches, lastOk, uncaught, overlapped>>

\* Mutant: the handler also flips the status of the item in the local list.
PostOkOptimistic(c) ==
    /\ calls[c].pc = "posted"
    /\ calls' = [calls EXCEPT ![c].pc = "fulfilled"]
    /\ fetches' = Append(fetches, NewFetch(c))
    /\ reviews' = [i \in DOMAIN reviews |->
                      IF reviews[i].id = calls[c].id
                      THEN [reviews[i] EXCEPT !.status = Transition(calls[c].kind)]
                      ELSE reviews[i]]
    /\ UNCHANGED <<phase, backend, lastOk, uncaught, overlapped>>

\* handleApprove / handleReject after the await: fetchReviews() is called
\* (not awaited) and the handler's promise fulfils.
PostOk(c) ==
    /\ calls[c].pc = "posted"
    /\ calls' = [calls EXCEPT ![c].pc = "fulfilled"]
    /\ fetches' = Append(fetches, NewFetch(c))
    /\ UNCHANGED <<phase, reviews, backend, lastOk, uncaught, overlapped>>

\* Mutant: the refresh runs even though the POST failed (try/finally).
PostFailRefresh(c) ==
    /\ PostInFlight(c)
    /\ calls' = [calls EXCEPT ![c].pc = "rejected"]
    /\ fetches' = Append(fetches, NewFetch(c))
    /\ uncaught' = uncaught + 1
    /\ UNCHANGED <<phase, reviews, backend, lastOk, overlapped>>

\* The awaited POST rejects (request or response lost, or error status):
\* the handler's promise rejects, the line after the await never runs.
PostFail(c) ==
    /\ PostInFlight(c)
    /\ calls' = [calls EXCEPT ![c].pc = "rejected"]
    /\ uncaught' = uncaught + 1
    /\ UNCHANGED <<phase, reviews, backend, fetches, lastOk, overlapped>>

\* The view is torn down.
Unmount ==
    /\ phase = "mounted"
    /\ phase' = "unmounted"
    /\ UNCHANGED <<reviews, backend, calls, fetches, lastOk, uncaught, overlapped>>

Next ==
    \/ Mount
    \/ \E f \in DOMAIN fetches : FetchServe(f)
    \/ \E f \in DOMAIN fetches : FetchOk(f)
    \/ \E f \in DOMAIN fetches : FetchFail(f)
    \/ \E id \in Ids : HandleApprove(id)
    \/ \E id \in Ids : HandleReject(id)
    \/ \E c \in DOMAIN calls : PostServe(c)
    \/ \E c \in DOMAIN calls : PostOk(c)
    \/ \E c \in DOMAIN calls : PostFail(c)

\* The controller during the lifetime of its view.
Spec == Init /\ [][Next]_vars

\* The controller including the teardown of its view.
SpecTeardown == Init /\ [][Next \/ Unmount]_vars

----------------------------------------------------------------------------
(* Shorthands used by the properties.                                       *)

\* The POST of call c ends in this step with an error.
PostFails(c) == PostInFlight(c) /\ calls'[c].pc = "rejected"

\* The GET of fetch f ends in this step with an error.
FetchFails(f) == FetchInFlight(f) /\ fetches'[f].st = "caught"

\* The GET of fetch f ends in this step with a response.
FetchSucceeds(f) == fetches[f].st = "served" /\ fetches'[f].st = "ok"

\* The fetches issued by call c.
FetchesOf(c) == {f \in DOMAIN fetches : fetches[f].owner = c}

\* Every request issued so far has completed, and none of them failed.
Settled ==
    /\ phase = "mounted"
    /\ ~InFlight
    /\ \A c \in DOMAIN calls : calls[c].pc = "fulfilled"
    /\ \A f \in DOMAIN fetches : fetches[f].st = "ok"

----------------------------------------------------------------------------
\* C1: within one approve / reject call the refresh fetch is issued only by
\* the step in which the call's own POST resolves; a fetch that belongs to a
\* call never exists while that call's POST is still in flight.
C1_MutationBeforeRefresh ==
    \A f \in DOMAIN fetches :
        fetches[f].owner # 0 =>
            /\ fetches[f].owner \in DOMAIN calls
            /\ calls[fetches[f].owner].pc = "fulfilled"

C1_Witness ==
    \E f \in DOMAIN fetches :
        /\ fetches[f].owner # 0
        /\ fetches[f].st = "sent"
        /\ calls[fetches[f].owner].pc = "fulfilled"
        /\ backend[calls[fetches[f].owner].id] = Transition(calls[fetches[f].owner].kind)

\* C2: when the POST of a call fails, that step leaves the queue as it was,
\* the error escapes the handler (its promise rejects), and the call issues
\* no refresh fetch, neither in that step nor later.
C2_FailedMutation ==
    [][/\ \A c \in DOMAIN calls :
             PostFails(c) =>
                 /\ reviews' = reviews
                 /\ fetches' = fetches
                 /\ uncaught' = uncaught + 1
       /\ \A c \in DOMAIN calls' :
             calls'[c].pc = "rejected" =>
                 \A f \in DOMAIN fetches' : fetches'[f].owner # c]_vars

C2_Witness ==
    \E c \in DOMAIN calls :
        /\ calls[c].pc = "rejected"
        /\ uncaught > 0
        /\ reviews # <<>>
        /\ FetchesOf(c) = {}

\* C3: a failing fetch leaves the queue at the result of the last fetch that
\* succeeded, and the failure is caught inside fetchReviews: nothing escapes
\* and the controller stays mounted.
C3_FetchFailureIsolated ==
    [][\A f \in DOMAIN fetches :
          FetchFails(f) =>
              /\ reviews' = reviews
              /\ lastOk # 0 => reviews' = fetches[lastOk].data
              /\ uncaught' = uncaught
              /\ phase' = phase]_vars

C3_Witness ==
    \E f \in DOMAIN fetches :
        /\ fetches[f].st = "caught"
        /\ lastOk # 0
        /\ lastOk < f
        /\ reviews = fetches[lastOk].data
        /\ reviews # <<>>
        /\ uncaught = 0

\* C4: the step in which a fetch succeeds makes the queue exactly the
\* sequence the backend returned for that fetch, whatever the queue was.
C4_QueueIsPayload ==
    [][\A f \in DOMAIN fetches :
          FetchSucceeds(f) =>
              /\ reviews' = fetches[f].data
              /\ Len(reviews') = NumItems
              /\ \A i \in 1..NumItems : reviews'[i].id = Order[i]]_vars

C4_Witness ==
    /\ lastOk > 1
    /\ fetches[1].st = "ok"
    /\ reviews = fetches[lastOk].data
    /\ reviews # fetches[1].data

\* C5: the queue always is the payload of the fetch that resolved
\* successfully last, in whatever order the fetches were issued, and the
\* empty sequence while no fetch has succeeded.
C5_LastResolvedWins ==
    reviews = IF lastOk = 0 THEN <<>> ELSE fetches[lastOk].data

C5_Witness ==
    \E f, g \in DOMAIN fetches :
        /\ f < g
        /\ fetches[f].st = "ok"
        /\ fetches[g].st = "ok"
        /\ lastOk = f
        /\ fetches[f].data # fetches[g].data
        /\ reviews = fetches[f].data

\* C6 as stated: once every issued POST and fetch has completed and none
\* failed, the queue equals the backend's current list, also when the calls
\* overlapped.
C6_Original ==
    (Settled /\ calls # <<>>) => reviews = ListReviews

\* C6 amended: the same, for approve / reject calls that were each triggered
\* while no other request was in flight.
C6_ResyncWhenSequential ==
    (Settled /\ calls # <<>> /\ ~overlapped) => reviews = ListReviews

C6_Witness ==
    /\ Settled
    /\ Len(calls) = MaxCalls
    /\ ~overlapped
    /\ reviews = ListReviews
    /\ reviews # fetches[1].data

\* C7: for every item of the queue both controls are rendered when its
\* status is PENDING and none otherwise; nothing but the status decides.
C7_ControlsIffPending ==
    \A i \in DOMAIN reviews :
        Render(reviews)[i].controls =
            IF reviews[i].status = "PENDING" THEN {"approve", "reject"} ELSE {}

C7_Witness ==
    /\ \E i \in DOMAIN reviews :
          reviews[i].status = "PENDING" /\ Render(reviews)[i].controls = {"approve", "reject"}
    /\ \E i \in DOMAIN reviews :
          reviews[i].status # "PENDING" /\ Render(reviews)[i].controls = {}
    /\ \E c \in DOMAIN calls, i \in DOMAIN reviews :
          reviews[i].id = calls[c].id /\ reviews[i].status = "PENDING"

\* A trigger that leads to a listReviews call is available: the mount effect
\* is still to run, a handler is waiting to refresh, or a button is rendered.
RefreshTriggerable ==
    \/ phase = "created"
    \/ \E c \in DOMAIN calls : PostInFlight(c)
    \/ \E i \in DOMAIN reviews : Controls(reviews[i]) # {}

\* C8: the controller has no terminal state: in every state of a live view a
\* further refresh can still be triggered.
C8_NoTerminalState ==
    phase # "unmounted" => RefreshTriggerable

\* C9: the step in which a POST fails changes what the reviewer sees, and the
\* item is still offered for retry.
C9_FailureVisible ==
    [][\A c \in DOMAIN calls :
          PostFails(c) =>
              /\ Render(reviews') # Render(reviews)
              /\ \E i \in DOMAIN reviews' :
                    reviews'[i].id = calls[c].id /\ Controls(reviews'[i]) # {}]_vars

\* C10: as long as no fetch has succeeded the queue is the empty sequence,
\* no action is offered and no error has escaped; a failed initial fetch
\* leaves the controller mounted with that empty queue.
C10_EmptyUntilFirstSuccess ==
    (\A f \in DOMAIN fetches : fetches[f].st # "ok") =>
        /\ reviews = <<>>
        /\ Render(reviews) = <<>>
        /\ calls = <<>>
        /\ uncaught = 0

C10_Witness ==
    /\ phase = "mounted"
    /\ fetches # <<>>
    /\ fetches[1].st = "caught"
    /\ reviews = <<>>
    /\ uncaught = 0

----------------------------------------------------------------------------
\* C11: the queue changes only in a step in which a fetch resolves
\* successfully, and then it becomes that fetch's payload as a whole; a
\* click, the end of a POST, the issue of a fetch and a failed fetch leave
\* it as it was.
C11_QueueChangesOnlyOnFetch ==
    [][reviews' # reviews =>
          \E f \in DOMAIN fetches : FetchSucceeds(f) /\ reviews' = fetches[f].data]_vars

C11_Witness ==
    \E c \in DOMAIN calls, i \in DOMAIN reviews :
        /\ calls[c].pc = "fulfilled"
        /\ reviews[i].id = calls[c].id
        /\ reviews[i].status = "PENDING"
        /\ backend[calls[c].id] # "PENDING"

\* C12: a successful refresh that follows a successful refresh, and whose
\* payload is the same (the backend did not change in between), leaves the
\* queue as the first one left it.
C12_RefreshIdempotent ==
    [][\A g \in DOMAIN fetches :
          (/\ FetchSucceeds(g)
           /\ lastOk # 0
           /\ fetches[g].data = fetches[lastOk].data)
          => reviews' = reviews]_vars

C12_Witness ==
    \E f, g \in DOMAIN fetches :
        /\ f # g
        /\ fetches[f].st = "ok"
        /\ fetches[g].st = "ok"
        /\ fetches[f].owner # 0
        /\ fetches[g].owner # 0
        /\ fetches[f].data = fetches[g].data
        /\ lastOk = g
        /\ reviews = fetches[g].data

C14_MutationTargetsPendingItem ==
    [][Len(calls') > Len(calls) =>
          /\ Len(calls') = Len(calls) + 1
          /\ lastOk # 0
          /\ LET n == calls'[Len(calls')] IN
                /\ \E i \in DOMAIN reviews :
                      reviews[i].id = n.id /\ reviews[i].status = "PENDING"
                /\ \E i \in DOMAIN fetches[lastOk].data :
                      fetches[lastOk].data[i].id = n.id
                /\ n.id = n.card
                /\ n.kind = n.button
                /\ n.pc = "posting"]_vars

C14_Witness ==
    \E c, d \in DOMAIN calls :
        /\ calls[c].button = "approve" /\ calls[c].kind = "approve"
        /\ calls[d].button = "reject" /\ calls[d].kind = "reject"
        /\ calls[c].id # calls[d].id

\* C15: after approve calls that each ran with no other request in flight
\* and whose POST and refresh succeeded, the queue shows the item as
\* APPROVED and renders no control for it.
C15_ApprovedShownWithoutControls ==
    (Settled /\ ~overlapped) =>
        \A c \in DOMAIN calls :
            calls[c].kind = "approve" =>
                \E i \in DOMAIN reviews :
                    /\ reviews[i].id = calls[c].id
                    /\ reviews[i].status = "APPROVED"
                    /\ Render(reviews)[i].controls = {}

C15_Witness ==
    /\ Settled
    /\ ~overlapped
    /\ Len(calls) = 1
    /\ calls[1].kind = "approve"
    /\ fetches[1].data # reviews
    /\ \E i \in DOMAIN reviews :
          reviews[i].id = calls[1].id /\ reviews[i].status = "APPROVED"

\* The calls whose POST resolved, each of which reached its refresh step.
Fulfilled == {c \in DOMAIN calls : calls[c].pc = "fulfilled"}

\* C16: once the mount effect has run, the number of fetches issued is one
\* plus the number of calls whose POST resolved (none before the effect);
\* a failed POST and a failed fetch issue no fetch.
C16_FetchCount ==
    Len(fetches) = (IF phase = "created" THEN 0 ELSE 1) + Cardinality(Fulfilled)

C16_Witness ==
    /\ \E c \in DOMAIN calls : calls[c].pc = "rejected"
    /\ \E f \in DOMAIN fetches : fetches[f].st = "caught"
    /\ Cardinality(Fulfilled) = 1
    /\ Len(fetches) = 2

\* C17 as stated: no two POSTs of one controller are for the same id.
C17_Original ==
    \A c, d \in DOMAIN calls : c # d => calls[c].id # calls[d].id

\* C17 amended: no two POSTs are for the same id as long as every click
\* happened with no other request in flight and no POST or fetch failed.
C17_OnePostPerIdWhenSequential ==
    (/\ ~overlapped
     /\ \A c \in DOMAIN calls : calls[c].pc # "rejected"
     /\ \A f \in DOMAIN fetches : fetches[f].st # "caught")
    => \A c, d \in DOMAIN calls : c # d => calls[c].id # calls[d].id

C17_Witness ==
    /\ ~overlapped
    /\ Len(calls) >= 2
    /\ \A c \in DOMAIN calls : calls[c].pc # "rejected"
    /\ \A f \in DOMAIN fetches : fetches[f].st # "caught"
    /\ calls[1].id # calls[2].id

====
